---------------------------- MODULE Spec2Model ----------------------------
(***************************************************************************)
(* Cool-roof savings calculator (src/streamlit_cool_roof_app.py).          *)
(*                                                                         *)
(* The script is a Streamlit page: every change of a widget re-runs the    *)
(* script from top to bottom with the widgets' current values.  The state  *)
(* of the model is the widgets' values and the values the last run         *)
(* computed.  One action per widget; each action is the change of the      *)
(* widget followed by the whole run.                                       *)
(*                                                                         *)
(* The script computes with Python floats (IEEE-754 binary64).  They are   *)
(* modelled bit-exactly: a float is a sign, a 53-bit significand and an    *)
(* exponent, and every operation rounds its exact result to the nearest    *)
(* float, ties to even.  The significand is a natural number held in       *)
(* limbs of 14 bits, least significant first.  A result beyond the        *)
(* largest float is an infinity, and the arithmetic of infinities gives    *)
(* NaN where IEEE-754 does.  Subnormal floats are not modelled: no input   *)
(* of the model is small enough for a result to fall below the normal      *)
(* range.                                                                  *)
(***************************************************************************)
EXTENDS Integers, Sequences, FiniteSets, TLC

(***************************************************************************)
(* Natural numbers of any size: sequences of limbs, least significant      *)
(* first, no leading zero limb; <<>> is 0.                                 *)
(***************************************************************************)
LimbBits == 7 + 7
B == 2 ^ LimbBits

Max(x, y) == IF x >= y THEN x ELSE y

Limb(a, i) == IF i >= 1 /\ i <= Len(a) THEN a[i] ELSE 0

RECURSIVE Trim(_)
Trim(a) == IF a = <<>> \/ a[Len(a)] # 0 THEN a
           ELSE Trim(SubSeq(a, 1, Len(a) - 1))

\* The limbs of the number whose columns are c (each column an integer,
\* possibly negative or >= B), from column i on with carry cy.
RECURSIVE Carry(_, _, _)
Carry(c, i, cy) ==
  IF i > Len(c)
  THEN IF cy = 0 THEN <<>> ELSE <<cy % B>> \o Carry(c, i, cy \div B)
  ELSE <<(c[i] + cy) % B>> \o Carry(c, i + 1, (c[i] + cy) \div B)

RECURSIVE IntToB(_)
IntToB(n) == IF n = 0 THEN <<>> ELSE <<n % B>> \o IntToB(n \div B)

BAdd(a, b) ==
  Trim(Carry([i \in 1..Max(Len(a), Len(b)) |-> Limb(a, i) + Limb(b, i)], 1, 0))

\* a - b, for a >= b
BSub(a, b) ==
  Trim(Carry([i \in 1..Len(a) |-> a[i] - Limb(b, i)], 1, 0))

RECURSIVE CmpFrom(_, _, _)
CmpFrom(a, b, i) ==
  IF i = 0 THEN 0
  ELSE IF a[i] > b[i] THEN 1
  ELSE IF a[i] < b[i] THEN -1
  ELSE CmpFrom(a, b, i - 1)

\* -1, 0, 1 as a < b, a = b, a > b
BCmp(a, b) ==
  IF Len(a) > Len(b) THEN 1
  ELSE IF Len(a) < Len(b) THEN -1
  ELSE CmpFrom(a, b, Len(a))

RECURSIVE ColSum(_, _, _, _)
ColSum(a, b, k, i) ==
  IF i > Len(a) \/ i > k THEN 0
  ELSE a[i] * Limb(b, k + 1 - i) + ColSum(a, b, k, i + 1)

BMul(a, b) ==
  IF a = <<>> \/ b = <<>> THEN <<>>
  ELSE Trim(Carry([k \in 1..(Len(a) + Len(b) - 1) |-> ColSum(a, b, k, 1)], 1, 0))

\* a * 2^n
BShl(a, n) ==
  LET q == n \div LimbBits
      r == n % LimbBits
  IN  IF a = <<>> THEN <<>>
      ELSE Trim(Carry([i \in 1..(Len(a) + q) |->
                         IF i <= q THEN 0 ELSE a[i - q] * (2 ^ r)], 1, 0))

\* floor(a / 2^n)
BShr(a, n) ==
  LET q == n \div LimbBits
      r == n % LimbBits
  IN  IF Len(a) <= q THEN <<>>
      ELSE Trim([i \in 1..(Len(a) - q) |->
                   (a[i + q] \div (2 ^ r))
                   + (Limb(a, i + q + 1) % (2 ^ r)) * (2 ^ (LimbBits - r))])

\* a mod 2^n
BLow(a, n) ==
  LET q == n \div LimbBits
      r == n % LimbBits
  IN  IF Len(a) <= q THEN a
      ELSE Trim([i \in 1..(q + 1) |-> IF i <= q THEN a[i] ELSE a[i] % (2 ^ r)])

\* the number of bits of a (0 for 0)
BitLen(a) ==
  IF a = <<>> THEN 0
  ELSE LimbBits * (Len(a) - 1)
       + (CHOOSE k \in 1..LimbBits : 2 ^ (k - 1) <= a[Len(a)] /\ a[Len(a)] < 2 ^ k)

(***************************************************************************)
(* Floats.  [s, m, e] is s * m * 2^e with s in {1, -1} and m of exactly    *)
(* MantBits bits; zero is the one float with m = 0.                        *)
(***************************************************************************)
MantBits == 53

\* the exponent of the last place of the largest floats, those from 2^1023
\* up to 2^1024
MaxExp == 2 ^ 10 - MantBits

Zero == [s |-> 1, m |-> <<>>, e |-> 0]
Inf(s) == [s |-> s, m |-> <<>>, e |-> MaxExp + 1]
NaN == [s |-> 0, m |-> <<>>, e |-> MaxExp + 1]

\* The outcome of a division by zero: Python raises ZeroDivisionError and
\* the run ends.  It is no float.
ZeroDivisionError == [s |-> 0, m |-> <<>>, e |-> 0]

IsError(x) == x.s = 0 /\ x.e = 0
IsNaN(x) == x.s = 0 /\ x.e # 0
\* a float that compares: not NaN
IsOrdered(x) == x.s # 0
FIsZero(x) == x.s # 0 /\ x.m = <<>> /\ x.e = 0
IsInf(x) == x.s # 0 /\ x.m = <<>> /\ x.e # 0
IsFinite(x) == x.s # 0 /\ (x.m # <<>> \/ x.e = 0)

\* the float r, or the infinity that it is when it lies beyond the largest
\* float
Overflow(r) == IF r.e > MaxExp THEN Inf(r.s) ELSE r

\* s * n * 2^e rounded to the nearest float, ties to even, for n of more
\* than MantBits bits: k bits are cut
RoundCut(s, n, e, k) ==
  LET q == BShr(n, k)
      c == BCmp(BLow(n, k), BShl(<<1>>, k - 1))
      q1 == IF c = 1 \/ (c = 0 /\ q[1] % 2 = 1) THEN BAdd(q, <<1>>) ELSE q
  IN  IF BitLen(q1) > MantBits
      THEN [s |-> s, m |-> BShr(q1, 1), e |-> e + k + 1]
      ELSE [s |-> s, m |-> q1, e |-> e + k]

\* s * n * 2^e rounded to the nearest float, ties to even
RoundNE(s, n, e) ==
  IF n = <<>> THEN Zero
  ELSE IF BitLen(n) <= MantBits
  THEN [s |-> s, m |-> BShl(n, MantBits - BitLen(n)), e |-> e - (MantBits - BitLen(n))]
  ELSE RoundCut(s, n, e, BitLen(n) - MantBits)

\* Powers of two used below
P2(k) == 2 ^ k
W26 == 2 ^ 26
W27 == 2 ^ 27

\* A significand m (four limbs) as two words: the upper 27 and the lower
\* 26 bits
Hi(m) == m[4] * P2(16) + m[3] * 4 + m[2] \div P2(12)
Lo(m) == (m[2] % P2(12)) * B + m[1]
Limbs(hi, lo) ==
  <<lo % B, (lo \div B) + (hi % 4) * P2(12), (hi \div 4) % B, hi \div P2(16)>>

\* the float s * (hi * 2^26 + lo) * 2^e, the significand of MantBits bits
\* moved up to its successor when up
MkUp(s, h1, l1, e) ==
  IF h1 = W27 THEN [s |-> s, m |-> Limbs(W26, 0), e |-> e + 1]
  ELSE [s |-> s, m |-> Limbs(h1, l1 % W26), e |-> e]
Mk(s, hi, lo, e, up) ==
  IF up THEN MkUp(s, hi + (lo + 1) \div W26, lo + 1, e)
  ELSE [s |-> s, m |-> Limbs(hi, lo), e |-> e]

(***************************************************************************)
(* Literals: the float nearest to a/b, for integers 0 <= a, 0 < b below    *)
(* 2^30, by long division bit by bit.                                      *)
(***************************************************************************)
\* n more quotient bits appended to q, for the remainder r < b
RECURSIVE DivBits(_, _, _, _)
DivBits(q, r, b, n) ==
  IF n = 0 THEN [q |-> q, r |-> r]
  ELSE IF 2 * r >= b THEN DivBits(2 * q + 1, 2 * r - b, b, n - 1)
  ELSE DivBits(2 * q, 2 * r, b, n - 1)

\* a/b scaled by 2^-k into [1, 2)
RECURSIVE DecNorm(_, _, _)
DecNorm(a, b, k) ==
  IF a >= 2 * b THEN DecNorm(a, 2 * b, k + 1)
  ELSE IF a < b THEN DecNorm(2 * a, b, k - 1)
  ELSE [a |-> a, b |-> b, k |-> k]

DecRound(k, hi, lo, g) ==
  Mk(1, hi, lo, k - (MantBits - 1), g.q = 1 /\ (g.r # 0 \/ lo % 2 = 1))
DecLo(k, b, hi, l) == DecRound(k, hi, l.q, DivBits(0, l.r, b, 1))
DecHi(k, b, h) == DecLo(k, b, h.q, DivBits(0, h.r, b, 26))
DecBits(n) == DecHi(n.k, n.b, DivBits(1, n.a - n.b, n.b, 26))

\* the float of the decimal literal a/b (b a power of ten): the literal's
\* value correctly rounded, as the Python parser gives it
Dec(a, b) == IF a = 0 THEN Zero ELSE DecBits(DecNorm(a, b, 0))

\* the float of an integer literal
FromInt(n) == Dec(n, 1)

(***************************************************************************)
(* Multiplication: the 106-bit product of the significands, limb by limb,  *)
(* cut to its leading MantBits bits.                                       *)
(***************************************************************************)
\* the eight limbs of the number whose columns are c1..c7
Norm8(c1, c2, c3, c4, c5, c6, c7) ==
  LET t2 == c2 + c1 \div B
      t3 == c3 + t2 \div B
      t4 == c4 + t3 \div B
      t5 == c5 + t4 \div B
      t6 == c6 + t5 \div B
      t7 == c7 + t6 \div B
  IN  <<c1 % B, t2 % B, t3 % B, t4 % B, t5 % B, t6 % B, t7 % B, t7 \div B>>

MulLimbs(a, b) ==
  Norm8(a[1] * b[1],
        a[1] * b[2] + a[2] * b[1],
        a[1] * b[3] + a[2] * b[2] + a[3] * b[1],
        a[1] * b[4] + a[2] * b[3] + a[3] * b[2] + a[4] * b[1],
        a[2] * b[4] + a[3] * b[3] + a[4] * b[2],
        a[3] * b[4] + a[4] * b[3],
        a[4] * b[4])

\* the product p cut o bits into its limb 4
MulPack(s, e, p, o) ==
  Mk(s,
     (p[6] \div P2(o - 2)) + p[7] * P2(16 - o) + p[8] * P2(30 - o),
     (p[4] \div P2(o)) + p[5] * P2(14 - o) + (p[6] % P2(o - 2)) * P2(28 - o),
     e + 3 * LimbBits + o,
     /\ (p[4] \div P2(o - 1)) % 2 = 1
     /\ \/ p[4] % P2(o - 1) # 0
        \/ p[1] # 0 \/ p[2] # 0 \/ p[3] # 0
        \/ (p[4] \div P2(o)) % 2 = 1)

\* the product has 106 bits or 105
MulCut(s, e, p) == MulPack(s, e, p, IF p[8] >= P2(7) THEN 11 ELSE 10)

\* x * y for floats other than zero
MulNZ(x, y) == MulCut(x.s * y.s, x.e + y.e, MulLimbs(x.m, y.m))

FMul(x, y) ==
  IF IsError(x) \/ IsError(y) THEN ZeroDivisionError
  ELSE IF IsNaN(x) \/ IsNaN(y) THEN NaN
  ELSE IF IsInf(x) \/ IsInf(y)
  THEN (IF FIsZero(x) \/ FIsZero(y) THEN NaN ELSE Inf(x.s * y.s))
  ELSE IF FIsZero(x) \/ FIsZero(y) THEN Zero
  ELSE Overflow(MulNZ(x, y))

(***************************************************************************)
(* Division: long division of the significands, a limb of the quotient at  *)
(* a time, to 56 bits after the leading one.                               *)
(***************************************************************************)
\* a >= b, for numbers of four limbs (leading zero limbs kept)
Ge4(a, b) ==
  IF a[4] # b[4] THEN a[4] > b[4]
  ELSE IF a[3] # b[3] THEN a[3] > b[3]
  ELSE IF a[2] # b[2] THEN a[2] > b[2]
  ELSE a[1] >= b[1]

\* the four limbs of the number whose columns are c1..c4
Norm4(c1, c2, c3, c4) ==
  LET t2 == c2 + c1 \div B
      t3 == c3 + t2 \div B
  IN  <<c1 % B, t2 % B, t3 % B, c4 + t3 \div B>>

\* q + floor(r / d) and r mod d, by repeated subtraction (r < 3 * d here)
RECURSIVE DivFix(_, _, _)
DivFix(q, r, d) ==
  IF Ge4(r, d)
  THEN DivFix(q + 1, Norm4(r[1] - d[1], r[2] - d[2], r[3] - d[3], r[4] - d[4]), d)
  ELSE [q |-> q, r |-> r]

\* r * B - q * d, then corrected
DivTry(r, d, q) ==
  DivFix(q, Norm4(0 - q * d[1], r[1] - q * d[2], r[2] - q * d[3],
                  r[3] - q * d[4] + B * r[4]), d)

\* One limb of a long division by d (of MantBits bits), for r < d:
\* [q, r'] with r * B = q * d + r' and r' < d.  The digit is first
\* estimated from below on the leading 15 bits of d.
DivDigit(r, d) ==
  DivTry(r, d, (r[4] * P2(18) + r[3] * 16 + r[2] \div P2(10))
               \div (d[4] * 16 + d[3] \div P2(10) + 1))

\* the quotient so far: its leading bit q0, its limbs qs after that, most
\* significant first, and the remainder r
DivStart(a, d) == [q0 |-> 0, qs |-> <<>>, r |-> a]
DivLead(st, n) == [q0 |-> n.q, qs |-> st.qs, r |-> n.r]
DivAppend(st, n) == [q0 |-> st.q0, qs |-> Append(st.qs, n.q), r |-> n.r]
DivStep(st, d) == DivAppend(st, DivDigit(st.r, d))

\* the quotient's leading MantBits bits m, rounded
DivPack(s, e, m, up) == Mk(s, Hi(m), Lo(m), e, up)

\* the quotient floor(x.m * 2^56 / d) has 57 bits or 56: k bits are cut
DivCut(s, e, q0, q, r, k) ==
  DivPack(s, e + k - 4 * LimbBits,
     <<(q[4] \div P2(k)) + (q[3] % P2(k)) * P2(LimbBits - k),
       (q[3] \div P2(k)) + (q[2] % P2(k)) * P2(LimbBits - k),
       (q[2] \div P2(k)) + (q[1] % P2(k)) * P2(LimbBits - k),
       (q[1] \div P2(k)) + q0 * P2(LimbBits - k)>>,
     /\ (q[4] \div P2(k - 1)) % 2 = 1
     /\ \/ q[4] % P2(k - 1) # 0
        \/ r # <<0, 0, 0, 0>>
        \/ (q[4] \div P2(k)) % 2 = 1)

DivRound(s, e, st) == DivCut(s, e, st.q0, st.qs, st.r, 3 + st.q0)

\* x / y for floats other than zero
DivNZ(x, y) ==
  DivRound(x.s * y.s, x.e - y.e,
    DivStep(DivStep(DivStep(DivStep(
      DivLead(DivStart(x.m, y.m), DivFix(0, x.m, y.m)),
      y.m), y.m), y.m), y.m))

\* x / y as Python divides floats: by zero it raises
FDiv(x, y) ==
  IF IsError(x) \/ IsError(y) \/ FIsZero(y) THEN ZeroDivisionError
  ELSE IF IsNaN(x) \/ IsNaN(y) THEN NaN
  ELSE IF IsInf(x) THEN (IF IsInf(y) THEN NaN ELSE Inf(x.s * y.s))
  ELSE IF IsInf(y) \/ FIsZero(x) THEN Zero
  ELSE Overflow(DivNZ(x, y))

(***************************************************************************)
(* Addition.                                                               *)
(***************************************************************************)
\* -1, 0, 1 as the two-word number (ah, al) is below, at or above (bh, bl)
Cmp2(ah, al, bh, bl) ==
  IF ah # bh THEN (IF ah > bh THEN 1 ELSE -1)
  ELSE IF al # bl THEN (IF al > bl THEN 1 ELSE -1)
  ELSE 0

\* the sum (th, tl) of MantBits bits or one more, rounded: c compares the
\* part of y below x's last place with half of that place, rnz is whether
\* that part is not zero
AddRound(s, e, th, tl, c, rnz) ==
  IF th < W27
  THEN Mk(s, th, tl, e, c = 1 \/ (c = 0 /\ tl % 2 = 1))
  ELSE Mk(s, th \div 2, (th % 2) * P2(25) + tl \div 2, e + 1,
          tl % 2 = 1 /\ (rnz \/ (tl \div 2) % 2 = 1))

AddSum(s, e, th0, tl0, c, rnz) ==
  AddRound(s, e, th0 + tl0 \div W26, tl0 % W26, c, rnz)

\* x's significand (xh, xl) plus y's (yh, yl) moved d places down, d <= 26
AddNear(s, e, d, xh, xl, yh, yl) ==
  AddSum(s, e,
         xh + yh \div P2(d),
         xl + (yl \div P2(d)) + (yh % P2(d)) * P2(26 - d),
         IF d = 0 THEN -1 ELSE Cmp2(0, yl % P2(d), 0, P2(d - 1)),
         yl % P2(d) # 0)

\* the same for d > 26
AddFar(s, e, d, xh, xl, yh, yl) ==
  AddSum(s, e,
         xh,
         xl + yh \div P2(d - 26),
         Cmp2(yh % P2(d - 26), yl, P2(d - 27), 0),
         yh % P2(d - 26) # 0 \/ yl # 0)

\* x + y for floats of the same sign other than zero, x.e >= y.e
AddSame(x, y) ==
  IF x.e - y.e <= 26
  THEN AddNear(x.s, x.e, x.e - y.e, Hi(x.m), Lo(x.m), Hi(y.m), Lo(y.m))
  ELSE AddFar(x.s, x.e, x.e - y.e, Hi(x.m), Lo(x.m), Hi(y.m), Lo(y.m))

\* x + y for floats of opposite signs other than zero, x.e >= y.e: the
\* exact difference, rounded
AddDiff(x, y, a, c) ==
  IF c = 0 THEN Zero
  ELSE IF c > 0 THEN RoundNE(x.s, BSub(a, y.m), y.e)
  ELSE RoundNE(y.s, BSub(y.m, a), y.e)
AddShifted(x, y, a) == AddDiff(x, y, a, BCmp(a, y.m))
AddOpposite(x, y) == AddShifted(x, y, BShl(x.m, x.e - y.e))

\* x + y for floats other than zero, x.e >= y.e
AddOrdered(x, y) ==
  IF x.e - y.e > MantBits + 2 THEN x
  ELSE IF x.s = y.s THEN AddSame(x, y)
  ELSE AddOpposite(x, y)

FAdd(x, y) ==
  IF IsError(x) \/ IsError(y) THEN ZeroDivisionError
  ELSE IF IsNaN(x) \/ IsNaN(y) THEN NaN
  ELSE IF IsInf(x) THEN (IF IsInf(y) /\ x.s # y.s THEN NaN ELSE x)
  ELSE IF IsInf(y) \/ FIsZero(x) THEN y
  ELSE IF FIsZero(y) THEN x
  ELSE IF x.e >= y.e THEN Overflow(AddOrdered(x, y))
  ELSE Overflow(AddOrdered(y, x))

Sgn(x) == IF FIsZero(x) THEN 0 ELSE x.s

\* -1, 0, 1 as x < y, x = y, x > y
FCmp(x, y) ==
  IF Sgn(x) # Sgn(y) THEN (IF Sgn(x) < Sgn(y) THEN -1 ELSE 1)
  ELSE IF Sgn(x) = 0 THEN 0
  ELSE IF x.e # y.e THEN (IF x.e > y.e THEN x.s ELSE -x.s)
  ELSE x.s * BCmp(x.m, y.m)

\* the comparisons of floats: all false when one of them is NaN
FGt(x, y) == IsOrdered(x) /\ IsOrdered(y) /\ FCmp(x, y) = 1
FGe(x, y) == IsOrdered(x) /\ IsOrdered(y) /\ FCmp(x, y) >= 0
FLe(x, y) == IsOrdered(x) /\ IsOrdered(y) /\ FCmp(x, y) <= 0
FEq(x, y) == IsOrdered(x) /\ IsOrdered(y) /\ FCmp(x, y) = 0

Neg(x) == [x EXCEPT !.s = -x.s]
\* 2^k
TwoTo(k) == [s |-> 1, m |-> Limbs(W26, 0), e |-> k - (MantBits - 1)]


(***************************************************************************)
(* The script.  A number widget holds a float.                             *)
(***************************************************************************)
VARIABLES
  area_m2,        \* "Powierzchnia dachu (m2)"
  roof_type,      \* "Rodzaj dachu"
  ac_band,        \* "Efektywnosc klimatyzacji (przedzial)"
  custom_eer_on,  \* "Podaj wlasny EER"
  eer_widget,     \* "EER (Energy Efficiency Ratio)"
  price_pln,      \* "Cena energii (zl/kWh)"
  ef_kg_per_kwh,  \* "Wspolczynnik emisji CO2 (kg/kWh)"
  cost_on,        \* "Wlacz obliczanie czasu zwrotu"
  unit_cost,      \* "Koszt powloki (zl/m2)"
  out             \* what the last run of the script computed and showed

vars == <<area_m2, roof_type, ac_band, custom_eer_on, eer_widget, price_pln,
          ef_kg_per_kwh, cost_on, unit_cost, out>>

RoofTypes == {"Blacha (metal)", "Beton", "Papa/bitum"}
AcBands == {"Stary", "Standard", "Wysoka sprawnosc"}

\* the widgets' min_value and default value
area_min == Dec(100, 10)
area_default == Dec(10000, 10)
eer_min == Dec(50, 10)
eer_default == Dec(110, 10)
price_min == Zero
default_price == Dec(85, 100)
ef_min == Zero
default_ef == Dec(77, 100)
unit_cost_min == Zero
unit_cost_default == Dec(500, 10)

\* the literals of the script
EER_OLD == Dec(90, 10)
EER_STANDARD == Dec(110, 10)
EER_HIGH == Dec(130, 10)
MULT_METAL == Dec(100, 100)
MULT_CONCRETE == Dec(95, 100)
MULT_BITUMEN == Dec(105, 100)
BASE_REDUCTION == Dec(58330, 10)
THOUSAND == Dec(10000, 10)
BILLION == FromInt(1000000000)

\* a variant: the band decides, the custom EER is ignored
eer_band_only(band, custom, widget) ==
  IF band = "Stary" THEN EER_OLD
  ELSE IF band = "Standard" THEN EER_STANDARD
  ELSE EER_HIGH

\* the EER in effect
eer(band, custom, widget) ==
  IF custom THEN widget
  ELSE IF band = "Stary" THEN EER_OLD
  ELSE IF band = "Standard" THEN EER_STANDARD
  ELSE EER_HIGH

\* a variant: the multipliers of concrete and bitumen felt exchanged
roof_multipliers_swapped(rt) ==
  CASE rt = "Blacha (metal)" -> MULT_METAL
    [] rt = "Beton" -> MULT_BITUMEN
    [] rt = "Papa/bitum" -> MULT_CONCRETE

roof_multipliers(rt) ==
  CASE rt = "Blacha (metal)" -> MULT_METAL
    [] rt = "Beton" -> MULT_CONCRETE
    [] rt = "Papa/bitum" -> MULT_BITUMEN

\* a variant: the conversion factor cut to two decimals
FT2_PER_M2_short == Dec(1076, 100)
FT2_PER_M2 == Dec(107639, 10000)
BTU_TO_J == Dec(105506, 100)
KG_PER_TREE_PER_YEAR == Dec(220, 10)
KG_PER_CAR_KM == Dec(2, 10)

area_ft2(a) == FMul(a, FT2_PER_M2)
reduction_btu_per_ft2(mult) == FMul(BASE_REDUCTION, mult)
total_reduction_btu(aft2, red) == FMul(aft2, red)
kwh_divisor(e) == FMul(e, THOUSAND)
kwh_saved(total, e) == FDiv(total, kwh_divisor(e))
pln_saved(kwh, price) == FMul(kwh, price)
kg_co2_saved(kwh, ef) == FMul(kwh, ef)
t_co2_saved(kg) == FDiv(kg, THOUSAND)
gj_saved(total) == FDiv(FMul(total, BTU_TO_J), BILLION)
trees_eq(kg) ==
  IF FGt(KG_PER_TREE_PER_YEAR, Zero) THEN FDiv(kg, KG_PER_TREE_PER_YEAR) ELSE Zero
km_eq(kg) ==
  IF FGt(KG_PER_CAR_KM, Zero) THEN FDiv(kg, KG_PER_CAR_KM) ELSE Zero

\* np.arange(lo, hi)
arange(lo, hi) == [i \in 1..(hi - lo) |-> lo + i - 1]
\* np.full_like(a, v, dtype=float)
full_like(a, v) == [i \in DOMAIN a |-> v]
\* a variant: entry i is i times a[i], not the running sum
cumsum_product(a) == [i \in DOMAIN a |-> FMul(FromInt(i), a[i])]
\* np.cumsum(a): the running sums, accumulated from the left
RECURSIVE cumsum(_)
cumsum(a) ==
  IF Len(a) <= 1 THEN a
  ELSE LET p == cumsum(SubSeq(a, 1, Len(a) - 1))
       IN  Append(p, FAdd(p[Len(p)], a[Len(a)]))

years == arange(1, 21)

\* the PAYBACK block: nothing shown, st.info with the number, or st.warning
payback_guard(pln) == FGt(pln, Zero)
\* a variant: without savings the payback is shown as 0
payback_shown_zero(capex, pln) ==
  IF payback_guard(pln)
  THEN [shown |-> "info", capex |-> capex, payback_years |-> FDiv(capex, pln)]
  ELSE [shown |-> "info", capex |-> capex, payback_years |-> Zero]
payback_shown(capex, pln) ==
  IF payback_guard(pln)
  THEN [shown |-> "info", capex |-> capex, payback_years |-> FDiv(capex, pln)]
  ELSE [shown |-> "warning", capex |-> capex]
\* a variant: the cost per m2 is taken for the cost of the roof
payback_unit(on, cost, area, pln) ==
  IF ~on THEN [shown |-> "nothing"]
  ELSE payback_shown(cost, pln)
payback(on, cost, area, pln) ==
  IF ~on THEN [shown |-> "nothing"]
  ELSE payback_shown(FMul(cost, area), pln)

(***************************************************************************)
(* One run of the script on the widgets' values w, section by section.     *)
(* Each section takes the script's variables v as the sections before it   *)
(* left them and adds its own.                                             *)
(***************************************************************************)
\* SIDEBAR - INPUTS
sidebar(w) ==
  [area_m2 |-> w.area_m2,
   eer |-> eer(w.ac_band, w.custom_eer_on, w.eer_widget),
   price_pln |-> w.price_pln,
   ef_kg_per_kwh |-> w.ef_kg_per_kwh,
   roof_mult |-> roof_multipliers(w.roof_type),
   cost_on |-> w.cost_on,
   unit_cost |-> w.unit_cost]

\* CALCULATIONS
calc_area(v) ==
  v @@ [area_ft2 |-> area_ft2(v.area_m2),
        reduction_btu_per_ft2 |-> reduction_btu_per_ft2(v.roof_mult),
        kwh_divisor |-> kwh_divisor(v.eer)]
calc_total(v) ==
  v @@ [total_reduction_btu |->
          total_reduction_btu(v.area_ft2, v.reduction_btu_per_ft2)]
calc_kwh(v) ==
  v @@ [kwh_saved |-> kwh_saved(v.total_reduction_btu, v.eer),
        gj_saved |-> gj_saved(v.total_reduction_btu)]
calc_money(v) ==
  v @@ [pln_saved |-> pln_saved(v.kwh_saved, v.price_pln),
        kg_co2_saved |-> kg_co2_saved(v.kwh_saved, v.ef_kg_per_kwh)]
calc_equiv(v) ==
  v @@ [t_co2_saved |-> t_co2_saved(v.kg_co2_saved),
        trees_eq |-> trees_eq(v.kg_co2_saved),
        km_eq |-> km_eq(v.kg_co2_saved)]
calc_cum(v) ==
  v @@ [years |-> years,
        kwh_cum |-> cumsum(full_like(years, v.kwh_saved)),
        pln_cum |-> cumsum(full_like(years, v.pln_saved)),
        tco2_cum |-> cumsum(full_like(years, v.t_co2_saved))]

\* PAYBACK (optional)
calc_payback(v) ==
  v @@ [payback |-> payback(v.cost_on, v.unit_cost, v.area_m2, v.pln_saved)]

Script(w) ==
  calc_payback(calc_cum(calc_equiv(calc_money(calc_kwh(calc_total(
    calc_area(sidebar(w))))))))

\* the widgets' values in the current state
Widgets ==
  [area_m2 |-> area_m2, roof_type |-> roof_type, ac_band |-> ac_band,
   custom_eer_on |-> custom_eer_on, eer_widget |-> eer_widget,
   price_pln |-> price_pln, ef_kg_per_kwh |-> ef_kg_per_kwh,
   cost_on |-> cost_on, unit_cost |-> unit_cost]

\* a variant: the custom-EER widgets take effect one run late
Rerun_stale(w) ==
  Script([w EXCEPT !.custom_eer_on = custom_eer_on, !.eer_widget = eer_widget])
\* Streamlit runs the script anew on the widgets' values after every change
Rerun(w) == Script(w)

\* The values a user may try to enter, some below the widgets' minimum.
\* No widget has a max_value: HugeArea is 2^1010, about 1.1e304.
MaxAreaThousands == 2
HugeArea == TwoTo(1010)
AreaChoices ==
  {Dec(50, 10), area_min, HugeArea}
    \cup {Dec(10000 * k, 10) : k \in 1..MaxAreaThousands}
EerChoices == {Dec(45, 10), eer_min}
PriceChoices == {Neg(Dec(5, 100)), Zero, default_price}
EfChoices == {Neg(Dec(1, 100)), Zero, default_ef}
UnitCostChoices == {Neg(Dec(50, 10)), Zero, unit_cost_default}

Init ==
  /\ area_m2 = area_default
  /\ roof_type = "Blacha (metal)"
  /\ ac_band = "Standard"
  /\ custom_eer_on = FALSE
  /\ eer_widget = eer_default
  /\ price_pln = default_price
  /\ ef_kg_per_kwh = default_ef
  /\ cost_on = FALSE
  /\ unit_cost = unit_cost_default
  /\ out = Script([area_m2 |-> area_default, roof_type |-> "Blacha (metal)",
                   ac_band |-> "Standard", custom_eer_on |-> FALSE,
                   eer_widget |-> eer_default, price_pln |-> default_price,
                   ef_kg_per_kwh |-> default_ef, cost_on |-> FALSE,
                   unit_cost |-> unit_cost_default])

\* the widgets take the values w and the script runs
Change(w) ==
  /\ area_m2' = w.area_m2
  /\ roof_type' = w.roof_type
  /\ ac_band' = w.ac_band
  /\ custom_eer_on' = w.custom_eer_on
  /\ eer_widget' = w.eer_widget
  /\ price_pln' = w.price_pln
  /\ ef_kg_per_kwh' = w.ef_kg_per_kwh
  /\ cost_on' = w.cost_on
  /\ unit_cost' = w.unit_cost
  /\ out' = Rerun(w)

SetArea ==
  \E v \in AreaChoices :
    /\ FGe(v, area_min)
    /\ Change([Widgets EXCEPT !.area_m2 = v])

SetRoofType ==
  \E r \in RoofTypes : Change([Widgets EXCEPT !.roof_type = r])

SetAcBand ==
  \E b \in AcBands : Change([Widgets EXCEPT !.ac_band = b])

\* A number widget that is not drawn in a run loses its value: it shows
\* its default when it is drawn again.
ToggleCustomEer ==
  Change([Widgets EXCEPT !.custom_eer_on = ~custom_eer_on,
                         !.eer_widget = eer_default])

SetEer ==
  \E v \in EerChoices :
    /\ custom_eer_on
    /\ FGe(v, eer_min)
    /\ Change([Widgets EXCEPT !.eer_widget = v])

SetPrice ==
  \E v \in PriceChoices :
    /\ FGe(v, price_min)
    /\ Change([Widgets EXCEPT !.price_pln = v])

SetEf ==
  \E v \in EfChoices :
    /\ FGe(v, ef_min)
    /\ Change([Widgets EXCEPT !.ef_kg_per_kwh = v])

ToggleCost ==
  Change([Widgets EXCEPT !.cost_on = ~cost_on, !.unit_cost = unit_cost_default])

SetUnitCost ==
  \E v \in UnitCostChoices :
    /\ cost_on
    /\ FGe(v, unit_cost_min)
    /\ Change([Widgets EXCEPT !.unit_cost = v])

Next ==
  \/ SetArea
  \/ SetRoofType
  \/ SetAcBand
  \/ ToggleCustomEer
  \/ SetEer
  \/ SetPrice
  \/ SetEf
  \/ ToggleCost
  \/ SetUnitCost

Spec == Init /\ [][Next]_vars

(***************************************************************************)
(* The claims.                                                             *)
(***************************************************************************)
Abs(x) == [x EXCEPT !.s = x.s * x.s]
Two == TwoTo(1)

\* p and q are finite and differ by at most 2^-k of q
Close(p, q, k) ==
  /\ IsFinite(p) /\ IsFinite(q)
  /\ FLe(Abs(FAdd(p, Neg(q))), FMul(Abs(q), TwoTo(-k)))

\* -1, 0, 1 as the finite float x > 0 is below, at or above num / den,
\* compared exactly
RatCmp(x, num, den) ==
  IF x.e >= 0
  THEN BCmp(BMul(BShl(x.m, x.e), IntToB(den)), IntToB(num))
  ELSE BCmp(BMul(x.m, IntToB(den)), BShl(IntToB(num), -x.e))

\* x rounds to the decimal n / scale (scale a power of ten): it lies
\* strictly between (n - 1/2) / scale and (n + 1/2) / scale
RoundsTo(x, n, scale) ==
  /\ IsFinite(x) /\ ~FIsZero(x) /\ x.s = 1
  /\ RatCmp(x, 2 * n - 1, 2 * scale) = 1
  /\ RatCmp(x, 2 * n + 1, 2 * scale) = -1

\* the areas the widget accepts, among those tried
ValidAreas == {a \in AreaChoices : FGe(a, area_min)}

Horizon == 1..20
Series ==
  {<<"kwh_cum", "kwh_saved">>, <<"pln_cum", "pln_saved">>,
   <<"tco2_cum", "t_co2_saved">>}

C2_PaybackOutcome ==
  /\ out.payback.shown = "info" <=> (cost_on /\ FGt(out.pln_saved, Zero))
  /\ out.payback.shown = "info" =>
       /\ DOMAIN out.payback = {"shown", "capex", "payback_years"}
       /\ out.payback.payback_years
            = FDiv(FMul(unit_cost, area_m2), out.pln_saved)
       /\ ~IsError(out.payback.payback_years)
  /\ (cost_on /\ FLe(out.pln_saved, Zero)) =>
       /\ out.payback.shown = "warning"
       /\ "payback_years" \notin DOMAIN out.payback
  /\ ~cost_on => out.payback = [shown |-> "nothing"]

\* the payback is requested and the price is 0: the warning
C2_Witness ==
  /\ cost_on
  /\ FIsZero(price_pln)
  /\ FIsZero(out.pln_saved)
  /\ out.payback.shown = "warning"

\* the inputs of the example: 1000 m2 of metal roof, EER 11.0, 0.85 zl/kWh,
\* 0.77 kg/kWh
ExampleInputs ==
  /\ area_m2 = Dec(10000, 10)
  /\ roof_type = "Blacha (metal)"
  /\ out.eer = Dec(110, 10)
  /\ price_pln = Dec(85, 100)
  /\ ef_kg_per_kwh = Dec(77, 100)

\* C3 as stated: on the example the area is 10763.9 ft2, the reduction
\* 5833.0 BTU/ft2, the total rounds to 62,786,879 BTU, the savings to
\* 5707.9 kWh, 4851.7 zl, 4395.1 kg and 4.395 t of CO2.
C3_ExampleAsStated ==
  ExampleInputs =>
    /\ out.area_ft2 = Dec(107639, 10)
    /\ out.reduction_btu_per_ft2 = Dec(58330, 10)
    /\ RoundsTo(out.total_reduction_btu, 62786879, 1)
    /\ RoundsTo(out.kwh_saved, 57079, 10)
    /\ RoundsTo(out.pln_saved, 48517, 10)
    /\ RoundsTo(out.kg_co2_saved, 43951, 10)
    /\ RoundsTo(out.t_co2_saved, 4395, 1000)

\* C3 as amended: on the example the area is 10763.9 ft2, the reduction
\* 5833.0 BTU/ft2, the total rounds to 62,785,829 BTU, the savings to
\* 5707.8 kWh, 4851.6 zl, 4395.0 kg and 4.395 t of CO2.
C3_Example ==
  ExampleInputs =>
    /\ out.area_ft2 = Dec(107639, 10)
    /\ out.reduction_btu_per_ft2 = Dec(58330, 10)
    /\ RoundsTo(out.total_reduction_btu, 62785829, 1)
    /\ RoundsTo(out.kwh_saved, 57078, 10)
    /\ RoundsTo(out.pln_saved, 48516, 10)
    /\ RoundsTo(out.kg_co2_saved, 43950, 10)
    /\ RoundsTo(out.t_co2_saved, 4395, 1000)

\* the example, its EER entered by hand
C3_Witness ==
  /\ ExampleInputs
  /\ custom_eer_on
  /\ RoundsTo(out.total_reduction_btu, 62785829, 1)

\* the run on the current inputs but the area a
WithArea(a) == Script([Widgets EXCEPT !.area_m2 = a])

Linear == {"total_reduction_btu", "kwh_saved", "pln_saved", "kg_co2_saved"}

\* C4: with the area doubled and the other inputs kept, the total
\* reduction and the yearly kWh, zl and kg of CO2 are exactly twice what
\* they are.
C4_DoublingIsExact ==
  \A f \in Linear : FEq(WithArea(FMul(Two, area_m2))[f], FMul(Two, out[f]))

\* What holds of C4: with the area doubled and the other inputs kept, each
\* of the total reduction and the yearly kWh, zl and kg of CO2 is exactly
\* twice what it is, unless it is NaN (the product of an infinite saving
\* and a price or emission factor of 0), and then it is NaN for the doubled
\* area as well.
C4_Doubling ==
  \A f \in Linear :
    IF IsNaN(out[f]) THEN IsNaN(WithArea(FMul(Two, area_m2))[f])
    ELSE FEq(WithArea(FMul(Two, area_m2))[f], FMul(Two, out[f]))

\* the run for twice the default area, against the run for the default area
C4_Witness ==
  /\ area_m2 = FMul(Two, area_default)
  /\ FGt(out.pln_saved, Zero)
  /\ \A f \in Linear : FEq(out[f], FMul(Two, WithArea(area_default)[f]))

\* the multipliers the claim names
ClaimedMultiplier(rt) ==
  CASE rt = "Blacha (metal)" -> Dec(100, 100)
    [] rt = "Beton" -> Dec(95, 100)
    [] rt = "Papa/bitum" -> Dec(105, 100)

WithRoof(rt) == Script([Widgets EXCEPT !.roof_type = rt])

\* C5: the reduction per ft2 is 5833.0 times the multiplier of the roof
\* type (metal 1.00, concrete 0.95, bitumen felt 1.05) whatever the other
\* inputs are; with the other inputs kept it is greater for bitumen felt
\* than for metal, and greater for metal than for concrete.
C5_ReductionByRoofType ==
  /\ out.reduction_btu_per_ft2
       = FMul(Dec(58330, 10), ClaimedMultiplier(roof_type))
  /\ FGt(WithRoof("Papa/bitum").reduction_btu_per_ft2,
         WithRoof("Blacha (metal)").reduction_btu_per_ft2)
  /\ FGt(WithRoof("Blacha (metal)").reduction_btu_per_ft2,
         WithRoof("Beton").reduction_btu_per_ft2)

\* a concrete roof of an area other than the default
C5_Witness ==
  /\ roof_type = "Beton"
  /\ area_m2 = area_min
  /\ FGt(Dec(58330, 10), out.reduction_btu_per_ft2)

\* the constants the claim names
ClaimedBandEer(band) ==
  CASE band = "Stary" -> Dec(90, 10)
    [] band = "Standard" -> Dec(110, 10)
    [] band = "Wysoka sprawnosc" -> Dec(130, 10)

\* C6: with the custom EER off, the EER in effect is the constant of the
\* band (old 9.0, standard 11.0, high efficiency 13.0); with it on, the
\* EER in effect is the value entered, which is at least 5.0, and the band
\* changes nothing of what is computed.
C6_EerInEffect ==
  /\ ~custom_eer_on => out.eer = ClaimedBandEer(ac_band)
  /\ custom_eer_on =>
       /\ out.eer = eer_widget
       /\ FGe(out.eer, Dec(50, 10))
       /\ \A b \in AcBands : Script([Widgets EXCEPT !.ac_band = b]) = out

\* the custom EER 5.0 while the band is the old one
C6_Witness ==
  /\ custom_eer_on
  /\ ac_band = "Stary"
  /\ out.eer = Dec(50, 10)
  /\ out.eer # ClaimedBandEer(ac_band)

Numbers ==
  {"area_ft2", "reduction_btu_per_ft2", "total_reduction_btu", "kwh_divisor",
   "kwh_saved", "pln_saved", "kg_co2_saved", "t_co2_saved", "gj_saved",
   "trees_eq", "km_eq"}

\* every number of the last run
Computed ==
  {out[f] : f \in Numbers}
    \cup {out[c[1]][n] : c \in Series, n \in Horizon}
    \cup {out.payback[f] : f \in DOMAIN out.payback \ {"shown"}}

\* no run divides by zero: the divisors are > 0 and the payback is divided
\* only by savings > 0
NeverDividesByZero ==
  /\ \A x \in Computed : ~IsError(x)
  /\ FGt(out.kwh_divisor, Zero)
  /\ out.kwh_divisor = FMul(out.eer, Dec(10000, 10))
  /\ FGt(KG_PER_TREE_PER_YEAR, Zero)
  /\ FGt(KG_PER_CAR_KM, Zero)
  /\ "payback_years" \in DOMAIN out.payback => FGt(out.pln_saved, Zero)

\* C7: no run divides by zero (the divisor eer * 1000, the tree
\* and car constants are > 0, the payback is divided only by savings > 0),
\* and so no number computed is undefined or infinite.
C7_NeverInfinite ==
  /\ NeverDividesByZero
  /\ \A x \in Computed : IsFinite(x)

\* What holds of C7: no run divides by zero (the divisor eer * 1000, the
\* tree and car constants are > 0, the payback is divided only by savings
\* > 0).  A number computed is infinite or NaN only when a product has
\* exceeded the range of the floats: here, when the total reduction is
\* infinite.
C7_NoDivisionByZero ==
  /\ NeverDividesByZero
  /\ IsFinite(out.total_reduction_btu) => \A x \in Computed : IsFinite(x)
  /\ IsFinite(out.total_reduction_btu) <=> area_m2 # HugeArea

\* the payback is requested and the price is 0: nothing is divided
C7_Witness ==
  /\ cost_on
  /\ FIsZero(out.pln_saved)
  /\ out.payback.shown = "warning"
  /\ \A x \in Computed : IsFinite(x)

\* C8: the yearly kWh, kg and t of CO2 are >= 0, and the t are
\* the kg / 1000.
C8_NonNegative ==
  /\ FGe(out.kwh_saved, Zero)
  /\ FGe(out.kg_co2_saved, Zero)
  /\ FGe(out.t_co2_saved, Zero)
  /\ FEq(out.t_co2_saved, FDiv(out.kg_co2_saved, Dec(10000, 10)))

\* What holds of C8: the yearly kWh are >= 0; the kg and the t of CO2 are
\* >= 0, the t being the kg / 1000, unless the kWh are infinite and the
\* emission factor is 0, and then both are NaN.
C8_NonNegativeOrNaN ==
  /\ FGe(out.kwh_saved, Zero)
  /\ IF IsInf(out.kwh_saved) /\ FIsZero(ef_kg_per_kwh)
     THEN IsNaN(out.kg_co2_saved) /\ IsNaN(out.t_co2_saved)
     ELSE /\ FGe(out.kg_co2_saved, Zero)
          /\ FGe(out.t_co2_saved, Zero)
          /\ FEq(out.t_co2_saved, FDiv(out.kg_co2_saved, Dec(10000, 10)))

\* savings > 0 for the smallest area
C8_Witness ==
  /\ area_m2 = area_min
  /\ FGt(out.kg_co2_saved, Zero)
  /\ FGt(out.kg_co2_saved, out.t_co2_saved)
  /\ FEq(out.t_co2_saved, FDiv(out.kg_co2_saved, Dec(10000, 10)))

\* C9: after any changes of the inputs, what is shown is the calculation on
\* the current values of the inputs, whatever the values before and the
\* order of the changes; in particular, with the custom EER off, the EER in
\* effect is the constant of the band, whatever was entered before.
C9_ShownIsCurrent ==
  /\ out = Script(Widgets)
  /\ out.area_m2 = area_m2
  /\ out.price_pln = price_pln
  /\ out.ef_kg_per_kwh = ef_kg_per_kwh
  /\ ~custom_eer_on => out.eer = ClaimedBandEer(ac_band)

\* the custom EER is off again, the band is not the default one
C9_Witness ==
  /\ ~custom_eer_on
  /\ ac_band = "Wysoka sprawnosc"
  /\ out.eer = Dec(130, 10)
  /\ cost_on
  /\ area_m2 # area_default

\* the valid areas of ordinary size
OrdinaryAreas == ValidAreas \ {HugeArea}

\* C10 as stated, on the areas of ordinary size: when the payback is
\* requested and the price is > 0, the run for any other valid area also
\* produces a payback, and the same one.
C10_PaybackSameAsStated ==
  (cost_on /\ FGt(price_pln, Zero) /\ area_m2 \in OrdinaryAreas) =>
    \A a \in OrdinaryAreas :
      /\ out.payback.shown = "info"
      /\ WithArea(a).payback.shown = "info"
      /\ FEq(WithArea(a).payback.payback_years, out.payback.payback_years)

\* C10 as amended: when the payback is requested and the price is > 0, the
\* run for any other valid area also produces a payback.  When the savings
\* of both runs are finite, the two paybacks are the same if one area is
\* twice the other, and otherwise the same up to the rounding of the six
\* operations behind each: they differ by at most 2^-49 of their value.
\* When the savings are infinite, the payback is 0.
C10_PaybackSame ==
  (cost_on /\ FGt(price_pln, Zero)) =>
    /\ out.payback.shown = "info"
    /\ IsInf(out.pln_saved) => FIsZero(out.payback.payback_years)
    /\ \A a \in ValidAreas \cup {FMul(Two, area_m2)} :
         /\ WithArea(a).payback.shown = "info"
         /\ (IsFinite(out.pln_saved) /\ IsFinite(WithArea(a).pln_saved)) =>
              /\ Close(WithArea(a).payback.payback_years,
                       out.payback.payback_years, 49)
              /\ (a = FMul(Two, area_m2) \/ area_m2 = FMul(Two, a)) =>
                   FEq(WithArea(a).payback.payback_years,
                       out.payback.payback_years)

\* the payback for the smallest area is not the payback for the default
\* area, and is close to it
C10_Witness ==
  /\ cost_on
  /\ area_m2 = area_min
  /\ out.payback.shown = "info"
  /\ ~FEq(WithArea(area_default).payback.payback_years,
          out.payback.payback_years)
  /\ Close(WithArea(area_default).payback.payback_years,
           out.payback.payback_years, 49)

=============================================================================
